---- MODULE Spec2Model ----
(***************************************************************************)
(* macdisp: the configuration applicator (apply_configuration) and the     *)
(* notch resolver (handle_notch_command) of src/src/main.rs, over the      *)
(* facade of src/src/lib.rs.                                               *)
(*                                                                         *)
(* Conventions.  Option<T> is a sequence: <<>> is None, <<x>> is Some(x).  *)
(* A String is a sequence of one-character strings, so that parsing is     *)
(* computed and not assumed.  A refresh rate is a fixed-point number in    *)
(* hundredths of a hertz (6000 is 60.00 Hz).                               *)
(***************************************************************************)
EXTENDS Integers, Sequences, FiniteSets, TLC

VARIABLES
    active,         \* get_active_displays(): the ids the platform lists
    persistent_id,  \* ds_get_display_uuid / fallback, per active display
    catalog,        \* ds_get_all_modes, per active display
    current,        \* ds_get_current_mode, per active display (an Option)
    builtin,        \* display_type contains "MacBook" or "built"
    main_display,   \* CGMainDisplayID()
    screen,         \* bounds, rotation, mirror set, activity, per display
    cli_configs,    \* Cli.configs: the configuration strings of the command
    pc,             \* position of the running command
    configs,        \* the batch handed to apply_configuration
    idx,            \* index of the record the loop is at
    display_info,   \* keys of the snapshot taken by apply_configuration
    uuid_to_id,     \* the snapshot's UUID -> id map
    calls,          \* facade calls of this run, in order
    msgs,           \* acknowledgments printed by this run, in order
    result,         \* what the command returned
    last            \* what the last step of the command read and chose

vars == <<active, persistent_id, catalog, current, builtin, main_display,
          screen, cli_configs, pc,
          configs, idx, display_info, uuid_to_id, calls, msgs, result, last>>

os_vars == <<active, persistent_id, catalog, builtin, main_display, screen>>

(***************************************************************************)
(* Bounds of the model.                                                    *)
(***************************************************************************)
MaxModes == 2   \* longest mode catalog
MaxBatch == 2   \* longest batch of configuration records

(***************************************************************************)
(* Options and strings.                                                    *)
(***************************************************************************)
NoneV == <<>>
Some(x) == <<x>>
is_some(o) == o # <<>>

Digits == {"0", "1", "2", "3", "4", "5", "6", "7", "8", "9"}

DigitVal(c) ==
    CASE c = "0" -> 0 [] c = "1" -> 1 [] c = "2" -> 2 [] c = "3" -> 3
      [] c = "4" -> 4 [] c = "5" -> 5 [] c = "6" -> 6 [] c = "7" -> 7
      [] c = "8" -> 8 [] c = "9" -> 9

RECURSIVE DecimalValue(_)
DecimalValue(s) ==
    IF s = <<>> THEN 0
    ELSE 10 * DecimalValue(SubSeq(s, 1, Len(s) - 1)) + DigitVal(s[Len(s)])

\* str::parse::<u32>: one optional leading "+", then one or more decimal
\* digits.  The strings of this model have at most three characters, so the
\* value is far below 2^32 and the overflow error cannot occur.
parse_u32_id(s) ==
    LET body == IF s # <<>> /\ s[1] = "+" THEN Tail(s) ELSE s
    IN IF body # <<>> /\ \A i \in 1..Len(body) : body[i] \in Digits
       THEN Some(DecimalValue(body))
       ELSE NoneV

\* format!("{}", n) of an unsigned integer: its decimal digits.
DigitChar(d) ==
    CASE d = 0 -> "0" [] d = 1 -> "1" [] d = 2 -> "2" [] d = 3 -> "3"
      [] d = 4 -> "4" [] d = 5 -> "5" [] d = 6 -> "6" [] d = 7 -> "7"
      [] d = 8 -> "8" [] d = 9 -> "9"

RECURSIVE format_u32(_)
format_u32(n) ==
    IF n < 10 THEN <<DigitChar(n)>>
    ELSE Append(format_u32(n \div 10), DigitChar(n % 10))

(***************************************************************************)
(* The platform behind the facade.                                         *)
(***************************************************************************)
\* get_current_mode: None for a display the platform does not know.
get_current_mode(cur, display_id) ==
    IF display_id \in DOMAIN cur THEN cur[display_id] ELSE NoneV

\* get_all_modes: empty for a display the platform does not know.
get_all_modes(display_id) ==
    IF display_id \in DOMAIN catalog THEN catalog[display_id] ELSE <<>>

\* get_display_info is None exactly when get_current_mode is.
has_display_info(cur, display_id) == is_some(get_current_mode(cur, display_id))

ModeNumbers(display_id) ==
    {get_all_modes(display_id)[i].mode_number :
        i \in 1..Len(get_all_modes(display_id))}

ModeByNumber(display_id, n) ==
    LET modes == get_all_modes(display_id)
    IN modes[CHOOSE i \in 1..Len(modes) : modes[i].mode_number = n]

\* ds_set_mode: status 0 makes the catalog mode of that number current; a
\* number that is in no catalog of the display is refused.  `status` is the
\* platform's answer for a number it knows.
ds_set_mode_status(display_id, mode_number, status) ==
    IF mode_number \in ModeNumbers(display_id) THEN status ELSE -1

ds_set_mode_effect(cur, display_id, mode_number, status) ==
    IF ds_set_mode_status(display_id, mode_number, status) = 0
    THEN [cur EXCEPT ![display_id] = Some(ModeByNumber(display_id, mode_number))]
    ELSE cur

Statuses == {0, -1}

(***************************************************************************)
(* lib.rs: the facade.                                                     *)
(***************************************************************************)
SetModeCall(display_id, mode_number, status) ==
    [fn |-> "ds_set_mode", display_id |-> display_id,
     args |-> <<mode_number>>, status |-> status]

\* configure_display: the arguments as handed to ds_configure_display.
ConfigureCall(display_id, x, y, rotation, mirror_of, enabled, status) ==
    [fn |-> "ds_configure_display", display_id |-> display_id,
     args |-> << IF is_some(x) THEN x[1] ELSE -1,
                 IF is_some(y) THEN y[1] ELSE -1,
                 IF is_some(rotation) THEN rotation[1] ELSE -1,
                 IF is_some(mirror_of) THEN mirror_of[1] ELSE 0,
                 IF is_some(enabled) THEN enabled[1] ELSE TRUE >>,
     status |-> status]

\* The outcome of one step of a command: the error ("Ok" for none), the
\* facade calls made, the lines printed and the current modes afterwards.
Outcome(err, cs, ms, cur) == [err |-> err, calls |-> cs, msgs |-> ms, current |-> cur]

\* set_display_mode: one ds_set_mode call; a non-zero status is an error.
set_display_mode(cur, display_id, mode_number, status) ==
    LET st == ds_set_mode_status(display_id, mode_number, status)
    IN Outcome(IF st = 0 THEN "Ok" ELSE "SetModeFailed",
               <<SetModeCall(display_id, mode_number, st)>>,
               <<>>,
               ds_set_mode_effect(cur, display_id, mode_number, status))

\* configure_display: one ds_configure_display call.
configure_display(cur, display_id, x, y, rotation, mirror_of, enabled, status) ==
    Outcome(IF status = 0 THEN "Ok" ELSE "ConfigureFailed",
            <<ConfigureCall(display_id, x, y, rotation, mirror_of, enabled, status)>>,
            <<>>,
            cur)

(***************************************************************************)
(* main.rs: apply_configuration, one record.                               *)
(***************************************************************************)
\* A variant that tries the UUID map for a numeric token naming no display.
resolve_display_id_uuid_fallback(config) ==
    LET parsed == parse_u32_id(config.id)
    IN IF is_some(parsed) /\ parsed[1] \in display_info THEN parsed
       ELSE IF config.id \in DOMAIN uuid_to_id /\ uuid_to_id[config.id] \in display_info
            THEN Some(uuid_to_id[config.id])
            ELSE NoneV

\* Lines 133-143: the display a record names.
resolve_display_id(config) ==
    LET parsed == parse_u32_id(config.id)
        display_id == IF is_some(parsed) THEN parsed
                      ELSE IF config.id \in DOMAIN uuid_to_id
                           THEN Some(uuid_to_id[config.id])
                           ELSE NoneV
    IN IF is_some(display_id) /\ display_id[1] \in display_info
       THEN display_id
       ELSE NoneV

HzTolerance == 10   \* 0.1 Hz

Abs(n) == IF n < 0 THEN -n ELSE n

res_match(config, mode) ==
    IF is_some(config.resolution)
    THEN mode.width = config.resolution[1][1] /\ mode.height = config.resolution[1][2]
    ELSE TRUE

\* A variant whose tolerance includes the bound.
hz_match_inclusive(config, mode) ==
    IF is_some(config.hz)
    THEN Abs(mode.refresh_rate - config.hz[1]) <= HzTolerance
    ELSE TRUE

hz_match(config, mode) ==
    IF is_some(config.hz)
    THEN Abs(mode.refresh_rate - config.hz[1]) < HzTolerance
    ELSE TRUE

depth_match(config, mode) ==
    IF is_some(config.color_depth) THEN mode.depth = config.color_depth[1] ELSE TRUE

scaling_match(config, mode) ==
    IF is_some(config.scaling) THEN mode.is_scaled = config.scaling[1] ELSE TRUE

mode_matches(config, mode) ==
    res_match(config, mode) /\ hz_match(config, mode)
        /\ depth_match(config, mode) /\ scaling_match(config, mode)

\* modes.iter().find(..): the first entry that matches, if any.
target_mode(config, modes) ==
    LET hits == {i \in 1..Len(modes) : mode_matches(config, modes[i])}
    IN IF hits = {} THEN NoneV
       ELSE Some(modes[CHOOSE i \in hits : \A j \in hits : i <= j])

\* A variant in which the scaling criterion alone starts a search.
wants_mode_search_scaling(config) ==
    is_some(config.resolution) \/ is_some(config.hz) \/ is_some(config.color_depth)
        \/ is_some(config.scaling)

\* Line 177.
wants_mode_search(config) ==
    is_some(config.resolution) \/ is_some(config.hz) \/ is_some(config.color_depth)

\* Lines 219-222.
wants_configure(config) ==
    is_some(config.mirror) \/ is_some(config.origin)
        \/ is_some(config.degree) \/ is_some(config.enabled)

\* Lines 146-174: the `mode` field.
apply_direct_mode(cur, config, display_id, status) ==
    LET mode_num == parse_u32_id(config.mode[1])
    IN IF ~is_some(mode_num) THEN Outcome("InvalidModeNumber", <<>>, <<>>, cur)
       ELSE LET set == set_display_mode(cur, display_id, mode_num[1], status)
            IN IF set.err # "Ok" THEN set
               ELSE Outcome("Ok", set.calls, <<"mode">>, set.current)

\* A variant that sets the matched mode without comparing it to the current one.
apply_matched_mode_always(cur, config, display_id, status) ==
    LET modes == get_all_modes(display_id)
        cur_mode == get_current_mode(cur, display_id)
        target == target_mode(config, modes)
    IN IF ~is_some(cur_mode) THEN Outcome("NoCurrentMode", <<>>, <<>>, cur)
       ELSE IF ~is_some(target) THEN Outcome("NoMatchingMode", <<>>, <<>>, cur)
       ELSE LET set == set_display_mode(cur, display_id, target[1].mode_number, status)
            IN IF set.err # "Ok" THEN set
               ELSE Outcome("Ok", set.calls, <<"mode">>, set.current)

\* Lines 177-216: the Mode Matcher and its application.
apply_matched_mode(cur, config, display_id, status) ==
    LET modes == get_all_modes(display_id)
        cur_mode == get_current_mode(cur, display_id)
        target == target_mode(config, modes)
    IN IF ~is_some(cur_mode) THEN Outcome("NoCurrentMode", <<>>, <<>>, cur)
       ELSE IF ~is_some(target) THEN Outcome("NoMatchingMode", <<>>, <<>>, cur)
       ELSE IF target[1].mode_number = cur_mode[1].mode_number
            THEN Outcome("Ok", <<>>, <<>>, cur)
       ELSE LET set == set_display_mode(cur, display_id, target[1].mode_number, status)
            IN IF set.err # "Ok" THEN set
               ELSE Outcome("Ok", set.calls, <<"mode">>, set.current)

\* Lines 224-238: the mirror target.  None, Some(id), or the error.
resolve_mirror(config) ==
    IF ~is_some(config.mirror) THEN [err |-> "Ok", id |-> NoneV]
    ELSE LET parsed == parse_u32_id(config.mirror[1])
         IN IF is_some(parsed) THEN [err |-> "Ok", id |-> parsed]
            ELSE IF config.mirror[1] \in DOMAIN uuid_to_id
                 THEN [err |-> "Ok", id |-> Some(uuid_to_id[config.mirror[1]])]
                 ELSE [err |-> "MirrorNotFound", id |-> NoneV]

\* Lines 244-255: the acknowledgments of a configure call.
configure_msgs(config, mirror_id) ==
    (IF is_some(config.origin) THEN <<"origin">> ELSE <<>>)
        \o (IF is_some(config.degree) THEN <<"rotation">> ELSE <<>>)
        \o (IF is_some(mirror_id) THEN <<"mirror">> ELSE <<>>)
        \o (IF is_some(config.enabled) THEN <<"enabled">> ELSE <<>>)

\* Lines 219-256: mirroring, position, rotation, enable.
apply_configure(cur, config, display_id, status) ==
    LET mirror == resolve_mirror(config)
        x == IF is_some(config.origin) THEN Some(config.origin[1][1]) ELSE NoneV
        y == IF is_some(config.origin) THEN Some(config.origin[1][2]) ELSE NoneV
    IN IF mirror.err # "Ok" THEN Outcome(mirror.err, <<>>, <<>>, cur)
       ELSE LET conf == configure_display(cur, display_id, x, y, config.degree,
                                          mirror.id, config.enabled, status)
            IN IF conf.err # "Ok" THEN conf
               ELSE Outcome("Ok", conf.calls, configure_msgs(config, mirror.id), cur)

\* `first`, then `second` unless `first` failed.
Then(first, second) ==
    IF first.err # "Ok" THEN first
    ELSE Outcome(second.err, first.calls \o second.calls,
                 first.msgs \o second.msgs, second.current)

\* The mode part of a record that has no `mode` field.
mode_step(cur, config, display_id, status) ==
    IF wants_mode_search(config)
    THEN apply_matched_mode(cur, config, display_id, status)
    ELSE Outcome("Ok", <<>>, <<>>, cur)

\* The configure part of a record that has no `mode` field.
configure_step(cur, config, display_id, status) ==
    IF wants_configure(config)
    THEN apply_configure(cur, config, display_id, status)
    ELSE Outcome("Ok", <<>>, <<>>, cur)

\* A variant without the `continue` that ends the `mode` branch.
apply_record_no_continue(cur, config, s_mode, s_conf) ==
    LET display == resolve_display_id(config)
    IN IF ~is_some(display) THEN Outcome("DisplayNotFound", <<>>, <<>>, cur)
       ELSE LET first == IF is_some(config.mode)
                         THEN apply_direct_mode(cur, config, display[1], s_mode)
                         ELSE mode_step(cur, config, display[1], s_mode)
            IN Then(first, configure_step(first.current, config, display[1], s_conf))

\* Lines 131-257: the body of the loop for one record.  s_mode and s_conf
\* are the platform's answers to the set-mode and the configure call.
apply_record(cur, config, s_mode, s_conf) ==
    LET display == resolve_display_id(config)
    IN IF ~is_some(display) THEN Outcome("DisplayNotFound", <<>>, <<>>, cur)
       ELSE IF is_some(config.mode)
            THEN apply_direct_mode(cur, config, display[1], s_mode)
       ELSE LET first == mode_step(cur, config, display[1], s_mode)
            IN Then(first, configure_step(first.current, config, display[1], s_conf))

\* Line 182: the local `target_mode` of the turn, None when the turn does
\* not reach the search.
searched_target(cur, config) ==
    LET display == resolve_display_id(config)
    IN IF is_some(display) /\ ~is_some(config.mode) /\ wants_mode_search(config)
            /\ is_some(get_current_mode(cur, display[1]))
       THEN target_mode(config, get_all_modes(display[1]))
       ELSE NoneV

(***************************************************************************)
(* main.rs: handle_notch_command.                                          *)
(***************************************************************************)
NotchActions == {"Hide", "Show", "Toggle"}

NotchWarnHeight == 100

\* A variant of the filter that does not compare widths.
is_similar_any_width(mode, cur_mode) ==
    /\ Abs(mode.refresh_rate - cur_mode.refresh_rate) < HzTolerance
    /\ mode.depth = cur_mode.depth
    /\ mode.is_scaled = cur_mode.is_scaled

\* Lines 370-377: the test of the filter.
is_similar(mode, cur_mode) ==
    /\ mode.width = cur_mode.width
    /\ Abs(mode.refresh_rate - cur_mode.refresh_rate) < HzTolerance
    /\ mode.depth = cur_mode.depth
    /\ mode.is_scaled = cur_mode.is_scaled

\* Lines 370-378: the catalog entries similar to the current mode, in
\* catalog order.
RECURSIVE similar_modes(_, _)
similar_modes(modes, cur_mode) ==
    IF modes = <<>> THEN <<>>
    ELSE (IF is_similar(Head(modes), cur_mode) THEN <<Head(modes)>> ELSE <<>>)
             \o similar_modes(Tail(modes), cur_mode)

\* Insertion of `mode` into a sequence sorted by height, after every entry
\* of the same height: the step of a stable sort.
RECURSIVE insert_by_height(_, _)
insert_by_height(sorted, mode) ==
    IF sorted = <<>> THEN <<mode>>
    ELSE IF sorted[Len(sorted)].height <= mode.height THEN Append(sorted, mode)
    ELSE Append(insert_by_height(SubSeq(sorted, 1, Len(sorted) - 1), mode),
                sorted[Len(sorted)])

\* Lines 385-386: sort_by_key(|mode| mode.height), a stable sort.
RECURSIVE sort_by_height(_)
sort_by_height(modes) ==
    IF modes = <<>> THEN <<>>
    ELSE insert_by_height(sort_by_height(SubSeq(modes, 1, Len(modes) - 1)),
                          modes[Len(modes)])

\* A variant that scans for a lower mode from the shortest up.
hide_target_from_shortest(sorted_modes, cur_mode) ==
    LET lower == {i \in 1..Len(sorted_modes) : sorted_modes[i].height < cur_mode.height}
    IN IF lower = {} THEN sorted_modes[1]
       ELSE sorted_modes[CHOOSE i \in lower : \A j \in lower : i <= j]

\* Lines 419-423: iter().rev().find(height < current).or_else(first).
hide_target(sorted_modes, cur_mode) ==
    LET lower == {i \in 1..Len(sorted_modes) : sorted_modes[i].height < cur_mode.height}
    IN IF lower = {} THEN sorted_modes[1]
       ELSE sorted_modes[CHOOSE i \in lower : \A j \in lower : j <= i]

\* Lines 427-430: iter().find(height > current).or_else(last).
show_target(sorted_modes, cur_mode) ==
    LET higher == {i \in 1..Len(sorted_modes) : sorted_modes[i].height > cur_mode.height}
    IN IF higher = {} THEN sorted_modes[Len(sorted_modes)]
       ELSE sorted_modes[CHOOSE i \in higher : \A j \in higher : i <= j]

\* A variant of Toggle that hides whatever the current height.
toggle_target_always_hide(sorted_modes, cur_mode) == hide_target(sorted_modes, cur_mode)

\* Lines 432-449.
toggle_target(sorted_modes, cur_mode) ==
    IF cur_mode.height = sorted_modes[1].height
    THEN show_target(sorted_modes, cur_mode)
    ELSE hide_target(sorted_modes, cur_mode)

\* Lines 416-450.
notch_target(action, sorted_modes, cur_mode) ==
    CASE action = "Hide" -> hide_target(sorted_modes, cur_mode)
      [] action = "Show" -> show_target(sorted_modes, cur_mode)
      [] action = "Toggle" -> toggle_target(sorted_modes, cur_mode)

\* Lines 344-355: the display the command acts on.
notch_display_id(cur, display_id) ==
    IF is_some(display_id) THEN display_id[1]
    ELSE IF main_display \in active /\ has_display_info(cur, main_display)
         THEN main_display
         ELSE 1

\* Lines 358-362.
is_builtin(cur, display_id) ==
    has_display_info(cur, display_id) /\ builtin[display_id]

\* Lines 452-482: the application of the target.
notch_apply(cur, action, display_id, cur_mode, mode, warn, status) ==
    IF mode.mode_number = cur_mode.mode_number
    THEN Outcome("Ok", <<>>, warn \o <<"already">>, cur)
    ELSE LET set == set_display_mode(cur, display_id, mode.mode_number, status)
             action_desc ==
                 CASE action = "Hide" -> "hidden"
                   [] action = "Show" -> "shown"
                   [] action = "Toggle" ->
                        IF mode.height < cur_mode.height THEN "hidden" ELSE "shown"
         IN IF set.err # "Ok" THEN Outcome(set.err, set.calls, warn, set.current)
            ELSE Outcome("Ok", set.calls, warn \o <<action_desc>>, set.current)

\* Lines 343-483.  `status` is the platform's answer to the set-mode call.
handle_notch_command(cur, action, display_id_arg, status) ==
    LET display_id == notch_display_id(cur, display_id_arg)
        cur_mode == get_current_mode(cur, display_id)
        sorted_modes == sort_by_height(similar_modes(get_all_modes(display_id), cur_mode[1]))
        min_height == sorted_modes[1].height
        max_height == sorted_modes[Len(sorted_modes)].height
        warn == IF ~is_builtin(cur, display_id) /\ max_height - min_height > NotchWarnHeight
                THEN <<"warning">> ELSE <<>>
    IN IF ~is_some(cur_mode) THEN Outcome("NoCurrentMode", <<>>, <<>>, cur)
       ELSE IF sorted_modes = <<>> THEN Outcome("NoSimilarModes", <<>>, <<>>, cur)
       ELSE IF min_height = max_height
            THEN Outcome(IF is_builtin(cur, display_id) THEN "NoNotch" ELSE "NotBuiltin",
                         <<>>, <<>>, cur)
       ELSE notch_apply(cur, action, display_id, cur_mode[1],
                        notch_target(action, sorted_modes, cur_mode[1]), warn, status)

\* Line 416: the local `target_mode` of the command, None when the command
\* fails before it chooses.
chosen_notch_target(cur, action, display_id_arg) ==
    LET display_id == notch_display_id(cur, display_id_arg)
        cur_mode == get_current_mode(cur, display_id)
        sorted_modes == sort_by_height(similar_modes(get_all_modes(display_id), cur_mode[1]))
    IN IF is_some(cur_mode) /\ sorted_modes # <<>>
            /\ sorted_modes[1].height # sorted_modes[Len(sorted_modes)].height
       THEN Some(notch_target(action, sorted_modes, cur_mode[1]))
       ELSE NoneV

(***************************************************************************)
(* The commands as steps.                                                  *)
(***************************************************************************)
Tag(seq, k) == [i \in 1..Len(seq) |-> [rec |-> k, ev |-> seq[i]]]

Running == [kind |-> "Running", at |-> 0]

\* The UUID -> id maps that collecting the snapshot into a HashMap can give:
\* when two displays have one UUID, either may be the one that is kept.
UuidMaps(info) ==
    {f \in [{persistent_id[d] : d \in info} -> info] :
        \A u \in DOMAIN f : persistent_id[f[u]] = u}

\* apply_configuration, lines 119-129: the snapshot.
TakeSnapshot ==
    /\ pc = "start"
    /\ display_info' = {d \in active : has_display_info(current, d)}
    /\ uuid_to_id' \in UuidMaps(display_info')
    /\ pc' = "loop"
    /\ UNCHANGED <<os_vars, cli_configs, current, configs, idx, calls, msgs, result, last>>

\* A variant of the loop that goes on to the next record after an error.
ApplyRecordNoAbort ==
    /\ pc = "loop"
    /\ idx <= Len(configs)
    /\ \E s_mode \in Statuses, s_conf \in Statuses :
          LET out == apply_record(current, configs[idx], s_mode, s_conf)
          IN /\ current' = out.current
             /\ calls' = calls \o Tag(out.calls, idx)
             /\ msgs' = msgs \o Tag(out.msgs, idx)
             /\ idx' = idx + 1
             /\ pc' = pc
             /\ result' = IF out.err = "Ok" \/ result # Running THEN result
                          ELSE [kind |-> out.err, at |-> idx]
    /\ last' = [rec |-> idx, action |-> "apply",
                display_id |-> resolve_display_id(configs[idx]),
                before |-> current,
                target |-> searched_target(current, configs[idx])]
    /\ UNCHANGED <<os_vars, cli_configs, configs, display_info, uuid_to_id>>

\* apply_configuration, lines 131-257: one turn of the loop.
ApplyRecord ==
    /\ pc = "loop"
    /\ idx <= Len(configs)
    /\ \E s_mode \in Statuses, s_conf \in Statuses :
          LET out == apply_record(current, configs[idx], s_mode, s_conf)
          IN /\ current' = out.current
             /\ calls' = calls \o Tag(out.calls, idx)
             /\ msgs' = msgs \o Tag(out.msgs, idx)
             /\ IF out.err = "Ok"
                THEN idx' = idx + 1 /\ pc' = pc /\ result' = result
                ELSE idx' = idx /\ pc' = "exit"
                        /\ result' = [kind |-> out.err, at |-> idx]
    /\ last' = [rec |-> idx, action |-> "apply",
                display_id |-> resolve_display_id(configs[idx]),
                before |-> current,
                target |-> searched_target(current, configs[idx])]
    /\ UNCHANGED <<os_vars, cli_configs, configs, display_info, uuid_to_id>>

\* apply_configuration, line 259.
ReturnOk ==
    /\ pc = "loop"
    /\ idx > Len(configs)
    /\ pc' = "exit"
    /\ result' = [kind |-> "Ok", at |-> 0]
    /\ UNCHANGED <<os_vars, cli_configs, current, configs, idx, display_info,
                   uuid_to_id, calls, msgs, last>>

NotchDisplayArgs == {NoneV, Some(1), Some(2)}

\* One run of `macdisp notch <action> [-d id]`.
NotchCommand ==
    /\ pc = "notch"
    /\ \E action \in NotchActions, display_id \in NotchDisplayArgs, status \in Statuses :
          LET out == handle_notch_command(current, action, display_id, status)
          IN /\ current' = out.current
             /\ calls' = Tag(out.calls, 1)
             /\ msgs' = Tag(out.msgs, 1)
             /\ result' = [kind |-> out.err, at |-> 1]
             /\ last' = [rec |-> 1, action |-> action,
                         display_id |-> Some(notch_display_id(current, display_id)),
                         before |-> current,
                         target |-> chosen_notch_target(current, action, display_id)]
    /\ UNCHANGED <<os_vars, cli_configs, pc, configs, idx, display_info, uuid_to_id>>

Next == TakeSnapshot \/ ApplyRecord \/ ReturnOk

NextNotch == NotchCommand

(***************************************************************************)
(* Initial states: the platforms and the command lines the specifications  *)
(* range over.                                                             *)
(***************************************************************************)
Mode(w, h, hz, depth, scaled) ==
    [width |-> w, height |-> h, refresh_rate |-> hz, depth |-> depth,
     is_scaled |-> scaled, mode_number |-> 0]

\* A catalog numbers its entries in enumeration order, from 0.
Numbered(attrs) == [i \in 1..Len(attrs) |-> [attrs[i] EXCEPT !.mode_number = i - 1]]

\* The catalogs of at most n entries drawn from `pool`, each mode listed once.
Catalogs(pool, n) ==
    {Numbered(a) : a \in {s \in UNION {[1..k -> pool] : k \in 0..n} :
                              \A i, j \in 1..Len(s) : s[i] = s[j] => i = j}}

\* The current mode of a display with catalog `modes`: one of its entries, or
\* a mode of `pool` that the catalog does not list (under a number of its own).
CurrentModes(modes, pool) ==
    {modes[i] : i \in 1..Len(modes)}
        \cup {[m EXCEPT !.mode_number = Len(modes)] : m \in pool}

Config(id, mode, resolution, hz, color_depth, scaling, origin, degree, mirror, enabled) ==
    [id |-> id, mode |-> mode, resolution |-> resolution, hz |-> hz,
     color_depth |-> color_depth, scaling |-> scaling, origin |-> origin,
     degree |-> degree, mirror |-> mirror, enabled |-> enabled]

Repeat(r, n) == [i \in 1..n |-> r]

\* A display at the origin, unrotated, in no mirror set, active.
Screen(x, y, rotation, in_mirror_set, mirrors_display, is_active) ==
    [x |-> x, y |-> y, rotation |-> rotation, in_mirror_set |-> in_mirror_set,
     mirrors_display |-> mirrors_display, is_active |-> is_active]

PlainScreen == Screen(0, 0, 0, FALSE, 0, TRUE)

\* A run that is handed its records directly, on plain screens.
InitRecords ==
    /\ cli_configs = <<>>
    /\ screen = [d \in active |-> PlainScreen]

InitRun ==
    /\ idx = 1
    /\ display_info = {}
    /\ uuid_to_id = <<>>
    /\ calls = <<>>
    /\ msgs = <<>>
    /\ result = Running
    /\ last = <<>>

(***************************************************************************)
(* main.rs: parse_config, and the parse loop of main.                      *)
(***************************************************************************)
\* The position of the first `c` in `s`, 0 when there is none.
find_char(s, c) ==
    IF \E i \in 1..Len(s) : s[i] = c
    THEN CHOOSE i \in 1..Len(s) : s[i] = c /\ \A j \in 1..(i - 1) : s[j] # c
    ELSE 0

\* str::split_once: the text before and after the first `c`.
split_once(s, c) ==
    LET i == find_char(s, c)
    IN IF i = 0 THEN NoneV
       ELSE Some(<<SubSeq(s, 1, i - 1), SubSeq(s, i + 1, Len(s))>>)

\* str::split_whitespace: the non-empty runs between blanks.
RECURSIVE split_whitespace(_)
split_whitespace(s) ==
    IF s = <<>> THEN <<>>
    ELSE IF s[1] = " " THEN split_whitespace(Tail(s))
    ELSE LET i == find_char(s, " ")
         IN IF i = 0 THEN <<s>>
            ELSE <<SubSeq(s, 1, i - 1)>> \o split_whitespace(SubSeq(s, i + 1, Len(s)))

all_digits(s) == s # <<>> /\ \A i \in 1..Len(s) : s[i] \in Digits

\* str::parse::<i32>: one optional sign, then one or more decimal digits.
parse_i32(s) ==
    LET signed == s # <<>> /\ s[1] \in {"+", "-"}
        body == IF signed THEN Tail(s) ELSE s
    IN IF ~all_digits(body) THEN NoneV
       ELSE IF signed /\ s[1] = "-" THEN Some(0 - DecimalValue(body))
       ELSE Some(DecimalValue(body))

\* The fraction digits of a decimal as hundredths; the strings of the model
\* carry at most two of them.
fraction_hundredths(f) ==
    IF f = <<>> THEN 0
    ELSE IF Len(f) = 1 THEN 10 * DigitVal(f[1])
    ELSE 10 * DigitVal(f[1]) + DigitVal(f[2])

\* str::parse::<f64> on decimal notation (sign, digits, point, digits, with a
\* digit on at least one side of the point), as hundredths of the value.  The
\* strings of the model hold no exponent and no "inf" or "nan".
parse_f64(s) ==
    LET signed == s # <<>> /\ s[1] \in {"+", "-"}
        body == IF signed THEN Tail(s) ELSE s
        dot == find_char(body, ".")
        whole == IF dot = 0 THEN body ELSE SubSeq(body, 1, dot - 1)
        frac == IF dot = 0 THEN <<>> ELSE SubSeq(body, dot + 1, Len(body))
        digits_only == \A i \in 1..Len(whole \o frac) : (whole \o frac)[i] \in Digits
        magnitude == 100 * DecimalValue(whole) + fraction_hundredths(frac)
    IN IF whole \o frac = <<>> \/ ~digits_only \/ Len(frac) > 2 THEN NoneV
       ELSE IF signed /\ s[1] = "-" THEN Some(0 - magnitude)
       ELSE Some(magnitude)

\* str::parse::<bool>: exactly "true" or "false".
parse_bool(s) ==
    IF s = <<"t", "r", "u", "e">> THEN Some(TRUE)
    ELSE IF s = <<"f", "a", "l", "s", "e">> THEN Some(FALSE)
    ELSE NoneV

\* str::trim_matches(|c| c == '(' || c == ')').
RECURSIVE trim_parens(_)
trim_parens(s) ==
    IF s = <<>> THEN s
    ELSE IF s[1] \in {"(", ")"} THEN trim_parens(Tail(s))
    ELSE IF s[Len(s)] \in {"(", ")"} THEN trim_parens(SubSeq(s, 1, Len(s) - 1))
    ELSE s

\* The keys of the match in parse_config, lines 80-103.
key_id == <<"i", "d">>
key_mode == <<"m", "o", "d", "e">>
key_res == <<"r", "e", "s">>
key_hz == <<"h", "z">>
key_color_depth == <<"c", "o", "l", "o", "r", "_", "d", "e", "p", "t", "h">>
key_scaling == <<"s", "c", "a", "l", "i", "n", "g">>
key_origin == <<"o", "r", "i", "g", "i", "n">>
key_degree == <<"d", "e", "g", "r", "e", "e">>
key_mirror == <<"m", "i", "r", "r", "o", "r">>
key_enabled == <<"e", "n", "a", "b", "l", "e", "d">>

is_known_key(key) ==
    key \in {key_id, key_mode, key_res, key_hz, key_color_depth, key_scaling,
             key_origin, key_degree, key_mirror, key_enabled}

\* Lines 83-87: "<width>x<height>", None unless both numbers parse.
parse_resolution(value) ==
    LET halves == split_once(value, "x")
    IN IF ~is_some(halves) THEN NoneV
       ELSE LET w == parse_u32_id(halves[1][1])
                h == parse_u32_id(halves[1][2])
            IN IF is_some(w) /\ is_some(h) THEN Some(<<w[1], h[1]>>) ELSE NoneV

\* Lines 94-99: "(<x>,<y>)", None unless both numbers parse.
parse_origin(value) ==
    LET halves == split_once(trim_parens(value), ",")
    IN IF ~is_some(halves) THEN NoneV
       ELSE LET x == parse_i32(halves[1][1])
                y == parse_i32(halves[1][2])
            IN IF is_some(x) /\ is_some(y) THEN Some(<<x[1], y[1]>>) ELSE NoneV

\* Lines 79-103: one arm of the match, for a known key.
set_field(config, key, value) ==
    CASE key = key_id -> [config EXCEPT !.id = value]
      [] key = key_mode -> [config EXCEPT !.mode = Some(value)]
      [] key = key_res ->
            LET wh == parse_resolution(value)
            IN IF is_some(wh) THEN [config EXCEPT !.resolution = wh] ELSE config
      [] key = key_hz -> [config EXCEPT !.hz = parse_f64(value)]
      [] key = key_color_depth -> [config EXCEPT !.color_depth = parse_u32_id(value)]
      [] key = key_scaling -> [config EXCEPT !.scaling = Some(value = <<"o", "n">>)]
      [] key = key_origin ->
            LET xy == parse_origin(value)
            IN IF is_some(xy) THEN [config EXCEPT !.origin = xy] ELSE config
      [] key = key_degree -> [config EXCEPT !.degree = parse_u32_id(value)]
      [] key = key_mirror -> [config EXCEPT !.mirror = Some(value)]
      [] key = key_enabled -> [config EXCEPT !.enabled = parse_bool(value)]

Parsed(err, key, config) == [err |-> err, key |-> key, config |-> config]

\* Lines 77-109: the loop over the parts.  A part without a colon is passed
\* over; an unknown key ends the parse.
RECURSIVE parse_parts(_, _)
parse_parts(parts, config) ==
    IF parts = <<>> THEN Parsed("Ok", <<>>, config)
    ELSE LET kv == split_once(parts[1], ":")
         IN IF ~is_some(kv) THEN parse_parts(Tail(parts), config)
            ELSE IF ~is_known_key(kv[1][1])
                 THEN Parsed("InvalidConfig", kv[1][1], config)
                 ELSE parse_parts(Tail(parts), set_field(config, kv[1][1], kv[1][2]))

\* Lines 64-75: the record the parse starts from.
empty_config == Config(<<>>, NoneV, NoneV, NoneV, NoneV, NoneV, NoneV, NoneV, NoneV, NoneV)

\* A variant without the check of lines 111-113.
parse_config_no_id_check(config_str) ==
    parse_parts(split_whitespace(config_str), empty_config)

\* Lines 63-116.
parse_config(config_str) ==
    LET parsed == parse_parts(split_whitespace(config_str), empty_config)
    IN IF parsed.err = "Ok" /\ parsed.config.id = <<>>
       THEN Parsed("MissingIdentifier", <<>>, parsed.config)
       ELSE parsed

\* A variant of the parse loop that drops a string that does not parse and
\* goes on to the next.
ParseConfigSkipInvalid ==
    /\ pc = "parse"
    /\ idx <= Len(cli_configs)
    /\ LET parsed == parse_config(cli_configs[idx])
       IN /\ last' = [rec |-> idx, action |-> "parse", parsed |-> parsed]
          /\ configs' = IF parsed.err = "Ok" THEN Append(configs, parsed.config)
                        ELSE configs
          /\ idx' = idx + 1
          /\ UNCHANGED <<pc, result>>
    /\ UNCHANGED <<os_vars, cli_configs, current, display_info, uuid_to_id, calls, msgs>>

\* main, lines 511-519: one turn of the parse loop.
ParseConfig ==
    /\ pc = "parse"
    /\ idx <= Len(cli_configs)
    /\ LET parsed == parse_config(cli_configs[idx])
       IN /\ last' = [rec |-> idx, action |-> "parse", parsed |-> parsed]
          /\ IF parsed.err = "Ok"
             THEN /\ configs' = Append(configs, parsed.config)
                  /\ idx' = idx + 1
                  /\ UNCHANGED <<pc, result>>
             ELSE /\ pc' = "exit"
                  /\ result' = [kind |-> parsed.err, at |-> idx]
                  /\ UNCHANGED <<configs, idx>>
    /\ UNCHANGED <<os_vars, cli_configs, current, display_info, uuid_to_id, calls, msgs>>

\* main, line 521: every string has parsed; apply_configuration is called.
CallApply ==
    /\ pc = "parse"
    /\ idx > Len(cli_configs)
    /\ pc' = "start"
    /\ idx' = 1
    /\ UNCHANGED <<os_vars, cli_configs, current, configs, display_info, uuid_to_id,
                   calls, msgs, result, last>>

NextMain == ParseConfig \/ CallApply \/ TakeSnapshot \/ ApplyRecord \/ ReturnOk

(***************************************************************************)
(* lib.rs: get_display_info, format_display_command, list_displays.        *)
(***************************************************************************)
\* get_display_info, lines 101-113: the display this one mirrors.
mirror_of_display(scr) ==
    IF scr.in_mirror_set
    THEN IF scr.mirrors_display # 0 THEN Some(scr.mirrors_display) ELSE NoneV
    ELSE NoneV

\* get_display_info, line 101.
is_mirror_display(scr) == scr.in_mirror_set

\* get_display_info, lines 96-157.
get_display_info(cur, display_id) ==
    LET mode == get_current_mode(cur, display_id)
        scr == screen[display_id]
    IN IF ~is_some(mode) THEN NoneV
       ELSE Some([id |-> display_id,
                  persistent_id |-> persistent_id[display_id],
                  x |-> scr.x, y |-> scr.y,
                  width |-> mode[1].width, height |-> mode[1].height,
                  rotation |-> scr.rotation,
                  hz |-> mode[1].refresh_rate,
                  depth |-> mode[1].depth,
                  scaling |-> mode[1].is_scaled,
                  mode_number |-> mode[1].mode_number,
                  is_main |-> (main_display = display_id),
                  is_mirror |-> is_mirror_display(scr),
                  mirror_of |-> mirror_of_display(scr),
                  enabled |-> scr.is_active])

\* format!("{}", n) of a signed integer.
format_i32(n) == IF n < 0 THEN <<"-">> \o format_u32(0 - n) ELSE format_u32(n)

\* format!("{:.0}", hz) of a non-negative rate: the nearest whole number, a
\* half going to the even neighbour.
format_hz(hz) ==
    LET whole == hz \div 100
        rest == hz % 100
    IN format_u32(IF rest > 50 \/ (rest = 50 /\ whole % 2 = 1)
                  THEN whole + 1 ELSE whole)

\* format_display_command, lines 226-253.
format_display_command(info) ==
    key_id \o <<":">> \o info.persistent_id
        \o <<" ">> \o key_res \o <<":">> \o format_u32(info.width)
        \o <<"x">> \o format_u32(info.height)
        \o <<" ">> \o key_hz \o <<":">> \o format_hz(info.hz)
        \o <<" ">> \o key_color_depth \o <<":">> \o format_u32(info.depth)
        \o <<" ">> \o key_scaling \o <<":">>
        \o (IF info.scaling THEN <<"o", "n">> ELSE <<"o", "f", "f">>)
        \o <<" ">> \o key_origin \o <<":", "(">> \o format_i32(info.x)
        \o <<",">> \o format_i32(info.y) \o <<")">>
        \o <<" ">> \o key_degree \o <<":">> \o format_u32(info.rotation)
        \o <<" ">>
        \o (IF is_some(info.mirror_of)
            THEN key_mirror \o <<":">> \o format_u32(info.mirror_of[1]) \o <<" ">>
            ELSE <<>>)
        \o key_enabled \o <<":">>
        \o (IF info.enabled THEN <<"t", "r", "u", "e">> ELSE <<"f", "a", "l", "s", "e">>)

\* get_active_displays as a list, in ascending order of id.
active_list ==
    [i \in 1..Cardinality(active) |->
        CHOOSE d \in active : Cardinality({e \in active : e < d}) = i - 1]

\* list_displays, lines 321-325: the commands of the closing line.
RECURSIVE printed_commands(_, _)
printed_commands(cur, displays) ==
    IF displays = <<>> THEN <<>>
    ELSE LET info == get_display_info(cur, displays[1])
         IN (IF is_some(info) THEN <<format_display_command(info[1])>> ELSE <<>>)
                \o printed_commands(cur, Tail(displays))

\* `macdisp list`: the descriptions and the command line that restores them.
ListDisplays ==
    /\ pc = "list"
    /\ last' = [rec |-> 0, action |-> "list",
                infos |-> [d \in active |-> get_display_info(current, d)],
                commands |-> printed_commands(current, active_list)]
    /\ pc' = "listed"
    /\ UNCHANGED <<os_vars, cli_configs, current, configs, idx, display_info,
                   uuid_to_id, calls, msgs, result>>

\* The printed command line is run: all of its strings, or one of them.
RunPrinted ==
    /\ pc = "listed"
    /\ last.commands # <<>>
    /\ cli_configs' \in {last.commands} \cup {<<last.commands[i]>> : i \in 1..Len(last.commands)}
    /\ pc' = "parse"
    /\ UNCHANGED <<os_vars, current, configs, idx, display_info, uuid_to_id,
                   calls, msgs, result, last>>

NextList ==
    ListDisplays \/ RunPrinted \/ ParseConfig \/ CallApply \/ TakeSnapshot
        \/ ApplyRecord \/ ReturnOk

\* ---- batches of records, two displays --------------------------------
TwoModes == Numbered(<<Mode(1920, 1080, 6000, 8, FALSE), Mode(1920, 1200, 6000, 8, FALSE)>>)
OneMode == Numbered(<<Mode(2560, 1440, 6000, 8, FALSE)>>)

BatchRecords ==
    LET n == NoneV
        d1 == <<"1">>
        b == <<"b">>
    IN { Config(d1, n, Some(<<1920, 1080>>), n, n, n, n, n, n, n),
         Config(d1, n, Some(<<1920, 1200>>), n, n, n, n, n, n, n),
         Config(b, n, n, Some(6000), n, n, Some(<<0, 0>>), n, n, n),
         Config(d1, Some(<<"0">>), n, n, n, n, n, n, n, n),
         Config(d1, Some(<<"x">>), n, n, n, n, n, n, n, n),
         Config(<<"9">>, n, Some(<<1920, 1200>>), n, n, n, n, n, n, Some(TRUE)),
         Config(d1, n, Some(<<800, 600>>), n, n, n, n, n, n, Some(TRUE)),
         Config(d1, n, n, n, n, n, n, Some(90), Some(<<"z">>), n),
         Config(b, n, n, n, n, n, Some(<<0, -1>>), Some(90), Some(<<"1">>), n),
         Config(d1, n, Some(<<1920, 1200>>), n, n, n, n, n, n, Some(FALSE)),
         Config(b, n, n, n, n, Some(TRUE), n, n, n, n) }

Batches(records, n) == UNION {[1..k -> records] : k \in 1..n}

Init ==
    /\ active = {1, 2}
    /\ persistent_id = (1 :> <<"a">>) @@ (2 :> <<"b">>)
    /\ catalog = (1 :> TwoModes) @@ (2 :> OneMode)
    /\ \E i \in 1..Len(TwoModes) :
          current = (1 :> Some(TwoModes[i])) @@ (2 :> Some(OneMode[1]))
    /\ builtin = (1 :> TRUE) @@ (2 :> FALSE)
    /\ main_display = 1
    /\ pc = "start"
    /\ configs \in Batches(BatchRecords, MaxBatch)
    /\ InitRun
    /\ InitRecords

Spec == Init /\ [][Next]_vars

\* ---- one record, identifiers and fields in every combination ----------
IdTokens == {<<"1">>, <<"2">>, <<"+", "1">>, <<"0", "1">>, <<"9">>, <<"a">>, <<"b">>, <<"z">>}

\* A persistent id is the display's UUID or, without one, its id in decimal.
PersistentIds(d) ==
    IF d = 1 THEN {<<"a">>, format_u32(d)}
    ELSE {<<"a">>, <<"b">>, <<"1">>, <<"9">>, format_u32(d)}

RecordConfigs ==
    { Config(id, mode, res, NoneV, NoneV, NoneV, NoneV, NoneV, mirror, enabled) :
        id \in IdTokens,
        mode \in {NoneV, Some(<<"1">>), Some(<<"+", "0">>), Some(<<"7">>), Some(<<"x">>)},
        res \in {NoneV, Some(<<1920, 1200>>), Some(<<800, 600>>)},
        mirror \in {NoneV} \cup {Some(t) : t \in {<<"2">>, <<"9">>, <<"b">>, <<"z">>}},
        enabled \in {NoneV, Some(FALSE)} }

InitRecord ==
    /\ active = {1, 2}
    /\ persistent_id \in {f \in [active -> UNION {PersistentIds(d) : d \in active}] :
                             \A d \in active : f[d] \in PersistentIds(d)}
    /\ catalog = (1 :> TwoModes) @@ (2 :> OneMode)
    /\ \E c2 \in {NoneV, Some(OneMode[1])} :
          current = (1 :> Some(TwoModes[1])) @@ (2 :> c2)
    /\ builtin = (1 :> TRUE) @@ (2 :> FALSE)
    /\ main_display = 1
    /\ pc = "start"
    /\ configs \in {<<r>> : r \in RecordConfigs}
    /\ InitRun
    /\ InitRecords

SpecRecord == InitRecord /\ [][Next]_vars

\* ---- the Mode Matcher: catalogs and criteria in every combination -----
MatchPool ==
    { Mode(1920, 1080, 6000, 8, FALSE),
      Mode(1920, 1200, 6000, 8, FALSE),
      Mode(1728, 1080, 6000, 8, FALSE),
      Mode(1920, 1080, 5995, 8, FALSE),
      Mode(1920, 1080, 6000, 10, FALSE),
      Mode(1920, 1080, 6000, 8, TRUE) }

MatchConfigs ==
    { Config(<<"1">>, NoneV, res, hz, depth, scaling, NoneV, NoneV, NoneV, NoneV) :
        res \in {NoneV, Some(<<1920, 1080>>), Some(<<1728, 1200>>)},
        hz \in {NoneV, Some(5990), Some(6000)},
        depth \in {NoneV, Some(10)},
        scaling \in {NoneV, Some(FALSE), Some(TRUE)} }

InitMatch ==
    /\ active = {1}
    /\ persistent_id = (1 :> <<"a">>)
    /\ catalog \in {(1 :> c) : c \in Catalogs(MatchPool, MaxModes)}
    /\ current \in {(1 :> Some(m)) : m \in CurrentModes(catalog[1], {Mode(1920, 1080, 6000, 8, FALSE)})}
    /\ builtin = (1 :> TRUE)
    /\ main_display = 1
    /\ pc = "start"
    /\ configs \in {Repeat(r, MaxBatch) : r \in MatchConfigs}
    /\ InitRun
    /\ InitRecords

SpecMatch == InitMatch /\ [][Next]_vars

\* ---- the notch command, run again and again on one platform -----------
NotchPool ==
    { Mode(1728, 1080, 6000, 8, FALSE),
      Mode(1728, 1117, 6000, 8, FALSE),
      Mode(1728, 1300, 6000, 8, FALSE),
      Mode(1728, 1080, 5995, 8, FALSE),
      Mode(1920, 1117, 6000, 8, FALSE),
      Mode(1728, 1117, 6000, 8, TRUE) }

MaxNotchModes == 3   \* longest catalog of the notch runs

InitNotch ==
    /\ active = {1}
    /\ persistent_id = (1 :> <<"a">>)
    /\ catalog \in {(1 :> c) : c \in Catalogs(NotchPool, MaxNotchModes)}
    /\ current \in {(1 :> Some(m)) : m \in CurrentModes(catalog[1], {Mode(1728, 1117, 6000, 8, FALSE)})}
    /\ builtin \in [active -> BOOLEAN]
    /\ main_display = 1
    /\ pc = "notch"
    /\ configs = <<>>
    /\ InitRun
    /\ InitRecords

SpecNotch == InitNotch /\ [][NextNotch]_vars

\* ---- the configure call: position, rotation, mirror, enable ------------
OriginValues == {<<0, 0>>, <<-1, 0>>, <<0, -1>>, <<-1, -1>>}
DegreeValues == {0, 90}
MirrorTokens == {<<"2">>, <<"0">>, <<"a">>}

ConfigureConfigs ==
    { Config(id, NoneV, NoneV, NoneV, NoneV, NoneV, origin, degree, mirror, enabled) :
        id \in {<<"1">>, <<"b">>},
        origin \in {NoneV} \cup {Some(o) : o \in OriginValues},
        degree \in {NoneV} \cup {Some(r) : r \in DegreeValues},
        mirror \in {NoneV} \cup {Some(t) : t \in MirrorTokens},
        enabled \in {NoneV, Some(TRUE), Some(FALSE)} }

InitConfigure ==
    /\ active = {1, 2}
    /\ persistent_id = (1 :> <<"a">>) @@ (2 :> <<"b">>)
    /\ catalog = (1 :> TwoModes) @@ (2 :> OneMode)
    /\ current = (1 :> Some(TwoModes[1])) @@ (2 :> Some(OneMode[1]))
    /\ builtin = (1 :> TRUE) @@ (2 :> FALSE)
    /\ main_display = 1
    /\ pc = "start"
    /\ configs \in {<<r>> : r \in ConfigureConfigs}
    /\ InitRun
    /\ InitRecords

SpecConfigure == InitConfigure /\ [][Next]_vars

\* ---- the command line: configuration strings, parsed and applied -------
MaxTokens == 3   \* most tokens in one configuration string

ParseTokens ==
    { <<"i", "d", ":", "1">>,
      <<"i", "d", ":", "b">>,
      <<"i", "d", ":">>,
      <<"r", "e", "s", ":", "1", "9", "2", "0", "x", "1", "2", "0", "0">>,
      <<"m", "o", "d", "e", ":", "1">>,
      <<"e", "n", "a", "b", "l", "e", "d", ":", "f", "a", "l", "s", "e">>,
      <<"f", "o", "o", ":", "1">>,
      <<"I", "D", ":", "2">>,
      <<"p", "l", "a", "i", "n">> }

\* The tokens of a string, one blank between two of them.
RECURSIVE Join(_)
Join(tokens) ==
    IF Len(tokens) = 1 THEN tokens[1]
    ELSE tokens[1] \o <<" ">> \o Join(Tail(tokens))

ConfigStrings(tokens, n) == {Join(t) : t \in UNION {[1..k -> tokens] : k \in 1..n}}

InitMain ==
    /\ active = {1, 2}
    /\ persistent_id = (1 :> <<"a">>) @@ (2 :> <<"b">>)
    /\ catalog = (1 :> TwoModes) @@ (2 :> OneMode)
    /\ current = (1 :> Some(TwoModes[1])) @@ (2 :> Some(OneMode[1]))
    /\ builtin = (1 :> TRUE) @@ (2 :> FALSE)
    /\ main_display = 1
    /\ screen = [d \in active |-> PlainScreen]
    /\ pc = "parse"
    /\ configs = <<>>
    /\ InitRun

InitParse ==
    /\ InitMain
    /\ cli_configs \in {<<c>> : c \in ConfigStrings(ParseTokens, MaxTokens)}

SpecParse == InitParse /\ [][NextMain]_vars

\* ---- `macdisp list`, and its printed command line run again ------------
ListPool ==
    { Mode(1920, 1080, 6000, 8, FALSE),
      Mode(1920, 1080, 5994, 8, FALSE),
      Mode(1920, 1080, 11988, 8, FALSE),
      Mode(2560, 1440, 5950, 8, TRUE) }

ListScreens ==
    { Screen(x, 0, rotation, in_set, mirrors, TRUE) :
        x \in {0, -1920}, rotation \in {0, 90},
        in_set \in BOOLEAN, mirrors \in {0, 2} }

InitList ==
    /\ active = {1, 2}
    /\ persistent_id \in {(1 :> p) @@ (2 :> <<"b">>) : p \in {<<"a">>, format_u32(1)}}
    /\ catalog \in {(1 :> c) @@ (2 :> OneMode) :
                       c \in {k \in Catalogs(ListPool, MaxModes) : k # <<>>}}
    /\ current \in {(1 :> Some(catalog[1][i])) @@ (2 :> Some(OneMode[1])) :
                       i \in 1..Len(catalog[1])}
    /\ builtin = (1 :> TRUE) @@ (2 :> FALSE)
    /\ main_display = 1
    /\ screen \in {(1 :> scr) @@ (2 :> PlainScreen) : scr \in ListScreens}
    /\ cli_configs = <<>>
    /\ pc = "list"
    /\ configs = <<>>
    /\ InitRun

SpecList == InitList /\ [][NextList]_vars

\* ---- the command line: several configuration strings -------------------
ArgStrings ==
    { <<"i", "d", ":", "1", " ", "r", "e", "s", ":", "1", "9", "2", "0", "x", "1", "2", "0", "0">>,
      <<"i", "d", ":", "b", " ", "o", "r", "i", "g", "i", "n", ":", "(", "0", ",", "0", ")">>,
      <<"i", "d", ":", "1", " ", "f", "o", "o", ":", "1">>,
      <<"r", "e", "s", ":", "1", "9", "2", "0", "x", "1", "2", "0", "0">>,
      <<"i", "d", ":", "9", " ", "d", "e", "g", "r", "e", "e", ":", "9", "0">>,
      <<"i", "d", ":", "2", " ", "m", "o", "d", "e", ":", "0">> }

InitArgs ==
    /\ InitMain
    /\ cli_configs \in Batches(ArgStrings, MaxBatch)

SpecArgs == InitArgs /\ [][NextMain]_vars

(***************************************************************************)
(* What the claims read.                                                   *)
(***************************************************************************)
Failed == result.kind \notin {"Running", "Ok"}

\* The positions in the call log of the ds_set_mode / ds_configure_display
\* calls made for record k.
SetModeCalls(k) ==
    {i \in 1..Len(calls) : calls[i].rec = k /\ calls[i].ev.fn = "ds_set_mode"}

ConfigureCalls(k) ==
    {i \in 1..Len(calls) : calls[i].rec = k /\ calls[i].ev.fn = "ds_configure_display"}

ModeMsgs(k) == {i \in 1..Len(msgs) : msgs[i].rec = k /\ msgs[i].ev = "mode"}

\* The state right after the loop has handled a record.
Applied == last # <<>> /\ last.action = "apply"

AppliedConfig == configs[last.rec]

FailedHere == Failed /\ result.at = last.rec

IsPrefix(s, t) == Len(s) <= Len(t) /\ SubSeq(t, 1, Len(s)) = s

(***************************************************************************)
(* C1.  apply_configuration handles the records in input order and fails   *)
(* fast: once record k has failed, the run is over, no facade call and no  *)
(* acknowledgment belongs to a record after k, and what was done before    *)
(* stays done: every step only appends to the call log, the calls it adds  *)
(* belong to the record it handles, a failing step changes a current mode  *)
(* only through a ds_set_mode call of its own that succeeded, and nothing  *)
(* happens after the failure.                                              *)
(***************************************************************************)
C1_AfterFailure ==
    Failed =>
        /\ pc = "exit"
        /\ result.kind \in {"DisplayNotFound", "InvalidModeNumber", "NoMatchingMode",
                            "MirrorNotFound", "SetModeFailed", "ConfigureFailed"}
        /\ last.rec = result.at
        /\ \A i \in 1..Len(calls) : calls[i].rec <= result.at
        /\ \A i \in 1..Len(msgs) : msgs[i].rec <= result.at
        /\ \A i \in 1..Len(calls) : calls[i].ev.status # 0 => i = Len(calls)

C1_Step ==
    /\ pc # "exit"
    /\ IsPrefix(calls, calls')
    /\ IsPrefix(msgs, msgs')
    /\ \A i \in (Len(calls) + 1)..Len(calls') : calls'[i].rec = idx
    /\ idx' \in {idx, idx + 1}
    /\ (idx' = idx + 1) => (last'.rec = idx /\ result' = Running)
    /\ \A d \in active :
          current'[d] # current[d] =>
              \E i \in (Len(calls) + 1)..Len(calls') :
                  /\ calls'[i].ev = SetModeCall(d, current'[d][1].mode_number, 0)

C1_FailFast == [](C1_AfterFailure) /\ [][C1_Step]_vars

\* A batch of two whose first record set a mode and then failed.
C1_Witness ==
    /\ Failed
    /\ result.at = 1
    /\ Len(configs) = 2
    /\ SetModeCalls(1) # {}
    /\ wants_configure(configs[2])

(***************************************************************************)
(* C2.  Identifier resolution.  A token that parses as an unsigned integer *)
(* and is a key of the snapshot resolves to that integer, whatever the     *)
(* UUIDs are; one that parses but is no key of the snapshot fails with     *)
(* DisplayNotFound, whatever the UUIDs are; a token that does not parse    *)
(* resolves to the id the UUID map gives it, or fails with DisplayNotFound *)
(* when the map has no such UUID.  A record that fails so makes no call,   *)
(* and every call of a record names the display it resolved to.            *)
(***************************************************************************)
NotFoundHere ==
    /\ result = [kind |-> "DisplayNotFound", at |-> last.rec]
    /\ last.display_id = NoneV
    /\ SetModeCalls(last.rec) = {} /\ ConfigureCalls(last.rec) = {}

ResolvedHere(id) ==
    /\ last.display_id = Some(id)
    /\ ~(result.kind = "DisplayNotFound" /\ result.at = last.rec)
    /\ \A i \in SetModeCalls(last.rec) \cup ConfigureCalls(last.rec) :
          calls[i].ev.display_id = id

C2_Resolution ==
    Applied =>
        LET token == AppliedConfig.id
            number == parse_u32_id(token)
        IN /\ (is_some(number) /\ number[1] \in display_info) => ResolvedHere(number[1])
           /\ (is_some(number) /\ number[1] \notin display_info) => NotFoundHere
           /\ (~is_some(number) /\ token \in DOMAIN uuid_to_id) =>
                  ResolvedHere(uuid_to_id[token])
           /\ (~is_some(number) /\ token \notin DOMAIN uuid_to_id) => NotFoundHere

\* The token "1" while display 2 has the UUID "1": display 1 is configured.
C2_Witness ==
    /\ Applied
    /\ AppliedConfig.id = <<"1">>
    /\ <<"1">> \in DOMAIN uuid_to_id /\ uuid_to_id[<<"1">>] = 2
    /\ ConfigureCalls(1) # {}
    /\ last.display_id = Some(1)

(***************************************************************************)
(* C3.  The Mode Matcher.  For a record without `mode` that names a        *)
(* display and gives at least one of resolution, hz, color_depth, the mode *)
(* selected is the first catalog entry whose width and height equal the    *)
(* resolution, whose refresh rate is strictly within 0.1 Hz of hz, whose   *)
(* depth equals color_depth and whose scaled flag equals scaling, each     *)
(* criterion the record lacks matching every entry; when no entry does,    *)
(* the record fails with NoMatchingMode and makes no ds_set_mode call.     *)
(***************************************************************************)
Satisfies(config, mode) ==
    /\ config.resolution # NoneV =>
          <<mode.width, mode.height>> = config.resolution[1]
    /\ config.hz # NoneV =>
          (mode.refresh_rate - config.hz[1] < 10 /\ config.hz[1] - mode.refresh_rate < 10)
    /\ config.color_depth # NoneV => mode.depth = config.color_depth[1]
    /\ config.scaling # NoneV => mode.is_scaled = config.scaling[1]

GivesModeCriterion(config) ==
    config.resolution # NoneV \/ config.hz # NoneV \/ config.color_depth # NoneV

\* The record just handled reached the mode part of the loop body.
ReachedMatcher ==
    Applied /\ last.display_id # NoneV /\ AppliedConfig.mode = NoneV

C3_ModeMatcher ==
    (ReachedMatcher /\ GivesModeCriterion(AppliedConfig)) =>
        LET modes == catalog[last.display_id[1]]
            hits == {i \in 1..Len(modes) : Satisfies(AppliedConfig, modes[i])}
        IN IF hits = {}
           THEN /\ result = [kind |-> "NoMatchingMode", at |-> last.rec]
                /\ last.target = NoneV
                /\ SetModeCalls(last.rec) = {}
           ELSE /\ \E i \in hits :
                      /\ \A j \in hits : i <= j
                      /\ last.target = Some(modes[i])
                      /\ \A c \in SetModeCalls(last.rec) :
                            calls[c].ev.args = <<modes[i].mode_number>>
                /\ result.kind # "NoMatchingMode"

\* hz:59.90 against a catalog of a 60.00 Hz mode followed by a 59.95 Hz mode,
\* with no scaling criterion: the second entry is selected and set.
C3_Witness ==
    /\ ReachedMatcher
    /\ AppliedConfig.hz = Some(5990)
    /\ AppliedConfig.scaling = NoneV
    /\ Len(catalog[1]) = 2
    /\ catalog[1][1].refresh_rate = 6000
    /\ last.target = Some(catalog[1][2])
    /\ SetModeCalls(last.rec) # {}

(***************************************************************************)
(* C4.  A record with no `mode` and none of resolution, hz, color_depth    *)
(* starts no search and makes no ds_set_mode call, with or without a       *)
(* scaling criterion: no current mode changes and the record does not fail *)
(* with NoMatchingMode.                                                    *)
(***************************************************************************)
C4_NoCriteriaNoSearch ==
    (Applied /\ AppliedConfig.mode = NoneV /\ ~GivesModeCriterion(AppliedConfig)) =>
        /\ last.target = NoneV
        /\ SetModeCalls(last.rec) = {}
        /\ ModeMsgs(last.rec) = {}
        /\ current = last.before
        /\ ~(result.kind = "NoMatchingMode" /\ result.at = last.rec)

\* scaling:on alone, on a display none of whose modes is scaled.
C4_Witness ==
    /\ Applied
    /\ AppliedConfig.mode = NoneV
    /\ ~GivesModeCriterion(AppliedConfig)
    /\ AppliedConfig.scaling = Some(TRUE)
    /\ catalog[1] # <<>>
    /\ \A i \in 1..Len(catalog[1]) : ~catalog[1][i].is_scaled
    /\ result.kind = "Running"

(***************************************************************************)
(* C5.  When the entry the Mode Matcher selects has the mode number of     *)
(* the display's current mode, as read when the record is handled, the     *)
(* record makes no ds_set_mode call and prints no mode acknowledgment; so  *)
(* in a batch that repeats one record, when every facade call succeeds,    *)
(* ds_set_mode is called at most once for the display.                     *)
(***************************************************************************)
C5_SameModeNoCall ==
    /\ (ReachedMatcher /\ last.target # NoneV
          /\ last.target[1].mode_number = last.before[last.display_id[1]][1].mode_number) =>
            /\ SetModeCalls(last.rec) = {}
            /\ ModeMsgs(last.rec) = {}
            /\ current = last.before
    /\ ((\A i \in 1..Len(configs) : configs[i] = configs[1])
          /\ (\A i \in 1..Len(calls) : calls[i].ev.status = 0)) =>
            \A d \in active :
                Cardinality({i \in 1..Len(calls) :
                                calls[i].ev.fn = "ds_set_mode"
                                    /\ calls[i].ev.display_id = d}) <= 1

\* A record repeated: the first turn set the mode, the second found it set.
C5_Witness ==
    /\ ReachedMatcher
    /\ last.rec = 2
    /\ configs[2] = configs[1]
    /\ SetModeCalls(1) # {}
    /\ calls[Len(calls)].ev.status = 0
    /\ last.target # NoneV
    /\ SetModeCalls(2) = {}

(***************************************************************************)
(* What the notch claims read: the command just run, the mode that was     *)
(* current when it ran, and the mode family of that mode.                  *)
(***************************************************************************)
NotchRan ==
    /\ last # <<>>
    /\ last.action \in NotchActions
    /\ last.display_id[1] \in active

NotchDisplay == last.display_id[1]

ModeBefore == last.before[NotchDisplay][1]

\* The positions of the catalog entries that share the current mode's width,
\* refresh rate within 0.1 Hz, depth and scaled flag.
Family ==
    {i \in 1..Len(catalog[NotchDisplay]) :
        LET m == catalog[NotchDisplay][i]
        IN /\ m.width = ModeBefore.width
           /\ m.refresh_rate - ModeBefore.refresh_rate < 10
           /\ ModeBefore.refresh_rate - m.refresh_rate < 10
           /\ m.depth = ModeBefore.depth
           /\ m.is_scaled = ModeBefore.is_scaled}

FamilyHeights == {catalog[NotchDisplay][i].height : i \in Family}

MinOf(S) == CHOOSE x \in S : \A y \in S : x <= y
MaxOf(S) == CHOOSE x \in S : \A y \in S : y <= x

NotchCapable == Cardinality(FamilyHeights) > 1

HeightForHide ==
    LET lower == {h \in FamilyHeights : h < ModeBefore.height}
    IN IF lower # {} THEN MaxOf(lower) ELSE MinOf(FamilyHeights)

HeightForShow ==
    LET higher == {h \in FamilyHeights : h > ModeBefore.height}
    IN IF higher # {} THEN MinOf(higher) ELSE MaxOf(FamilyHeights)

HeightForToggle ==
    IF ModeBefore.height = MinOf(FamilyHeights) THEN HeightForShow ELSE HeightForHide

(***************************************************************************)
(* C6.  Notch target selection.  On a notch-capable display the mode the   *)
(* command selects is a member of the family whose height is: for Hide,    *)
(* the greatest family height below the current height, or the least       *)
(* family height when none is below; for Show, the least family height     *)
(* above the current height, or the greatest when none is above; for       *)
(* Toggle, that of Show when the current height is the family minimum and  *)
(* that of Hide otherwise.  A ds_set_mode call of the command names the    *)
(* selected mode.                                                          *)
(***************************************************************************)
C6_NotchTarget ==
    (NotchRan /\ NotchCapable) =>
        /\ last.target # NoneV
        /\ \E i \in Family : catalog[NotchDisplay][i] = last.target[1]
        /\ last.target[1].height =
              CASE last.action = "Hide" -> HeightForHide
                [] last.action = "Show" -> HeightForShow
                [] last.action = "Toggle" -> HeightForToggle
        /\ \A i \in 1..Len(calls) :
              calls[i].ev.fn = "ds_set_mode"
                  /\ calls[i].ev.args = <<last.target[1].mode_number>>

\* Hide from the tallest of three heights goes to the middle one.
C6_Witness ==
    /\ NotchRan
    /\ last.action = "Hide"
    /\ Cardinality({h \in FamilyHeights : h < ModeBefore.height}) = 2
    /\ last.target # NoneV
    /\ last.target[1].height = 1117
    /\ result.kind = "Ok"
    /\ Len(calls) = 1

(***************************************************************************)
(* C7.  Hide is idempotent at the minimum: on a notch-capable display      *)
(* whose current mode has the family's minimum height, Hide returns        *)
(* success and makes no ds_set_mode call.  Stated for the runs in which    *)
(* the current mode is an entry of the catalog and the platform refuses no *)
(* call.                                                                   *)
(***************************************************************************)
C7_HideIdempotent ==
    (NotchRan /\ NotchCapable /\ last.action = "Hide"
        /\ ModeBefore.height = MinOf(FamilyHeights)
        /\ (\E i \in Family : catalog[NotchDisplay][i] = ModeBefore)
        /\ (\A i \in 1..Len(calls) : calls[i].ev.status = 0)) =>
            /\ result.kind = "Ok"
            /\ calls = <<>>

(***************************************************************************)
(* C8.  For every notch action on a display that has a current mode: an    *)
(* empty family gives NoSimilarModes; a family whose members all have one  *)
(* height gives NotNotchCapable (under either of its two messages, for a   *)
(* built-in display or not); in both cases no ds_set_mode call is made and *)
(* no mode changes.  NoSimilarModes does not occur when the current mode   *)
(* is an entry of the catalog.                                             *)
(***************************************************************************)
C8_NotchErrors ==
    NotchRan =>
        /\ Family = {} =>
              /\ result.kind = "NoSimilarModes"
              /\ calls = <<>> /\ current = last.before
        /\ Cardinality(FamilyHeights) = 1 =>
              /\ result.kind = (IF builtin[NotchDisplay] THEN "NoNotch" ELSE "NotBuiltin")
              /\ calls = <<>> /\ current = last.before
        /\ (\E i \in 1..Len(catalog[NotchDisplay]) : catalog[NotchDisplay][i] = ModeBefore)
              => result.kind # "NoSimilarModes"
        /\ result.kind = "NoSimilarModes" => Family = {}
        /\ result.kind \in {"NoNotch", "NotBuiltin"} => Cardinality(FamilyHeights) = 1

\* Two catalog entries of one family and one height, on a display that is
\* not built in, with the current mode in the catalog.
C8_Witness ==
    /\ NotchRan
    /\ ~builtin[NotchDisplay]
    /\ Cardinality(Family) = 2
    /\ Cardinality(FamilyHeights) = 1
    /\ \E i \in Family : catalog[NotchDisplay][i] = ModeBefore
    /\ result.kind = "NotBuiltin"

(***************************************************************************)
(* C9.  The `mode` field.  As claimed: a record that names a display and   *)
(* has `mode` set makes exactly one ds_set_mode call, no search and no     *)
(* configure call.                                                         *)
(***************************************************************************)
DirectModeRecord == Applied /\ last.display_id # NoneV /\ AppliedConfig.mode # NoneV

CallsOfRecord == {i \in 1..Len(calls) : calls[i].rec = last.rec}

NamesDisplay(token) ==
    LET number == parse_u32_id(token)
    IN IF number # NoneV THEN number[1] \in display_info
       ELSE token \in DOMAIN uuid_to_id

ReachedConfigure ==
    /\ ReachedMatcher
    /\ ~(result.at = last.rec /\ result.kind \in {"NoMatchingMode", "SetModeFailed"})
    /\ \/ AppliedConfig.mirror # NoneV \/ AppliedConfig.origin # NoneV
       \/ AppliedConfig.degree # NoneV \/ AppliedConfig.enabled # NoneV

C10_MirrorResolved ==
    (ReachedConfigure /\ display_info = active
        /\ (\A i \in 1..Len(calls) : calls[i].ev.status = 0)) =>
        IF AppliedConfig.mirror # NoneV /\ ~NamesDisplay(AppliedConfig.mirror[1])
        THEN /\ result.at = last.rec
             /\ result.kind \in {"DisplayNotFound", "MirrorNotFound"}
             /\ ConfigureCalls(last.rec) = {}
        ELSE Cardinality(ConfigureCalls(last.rec)) = 1

(***************************************************************************)
(* C11.  A field that a record does not set is conveyed to the platform as *)
(* absent: the configure call made for the record differs from the call    *)
(* that the same record would make with that field set to any explicit     *)
(* value, for each of origin, rotation, mirror target and enabled.         *)
(***************************************************************************)
\* The configure call the loop logged for the record it has just handled.
ConfigureCallHere == calls[CHOOSE i \in ConfigureCalls(last.rec) : TRUE].ev

\* `variant` makes the very call that was logged.
SameConfigureCall(variant) ==
    apply_configure(last.before, variant, ConfigureCallHere.display_id,
                    ConfigureCallHere.status).calls = <<ConfigureCallHere>>

ConfiguredHere == Applied /\ ConfigureCalls(last.rec) # {}

C11_DegreeAbsent ==
    (ConfiguredHere /\ ~is_some(AppliedConfig.degree)) =>
        \A r \in DegreeValues :
            ~SameConfigureCall([AppliedConfig EXCEPT !.degree = Some(r)])

C11_AbsentConveyed ==
    ConfiguredHere =>
        /\ ~is_some(AppliedConfig.origin) =>
              \A o \in OriginValues :
                  ~SameConfigureCall([AppliedConfig EXCEPT !.origin = Some(o)])
        /\ C11_DegreeAbsent
        /\ ~is_some(AppliedConfig.mirror) =>
              \A t \in MirrorTokens :
                  ~SameConfigureCall([AppliedConfig EXCEPT !.mirror = Some(t)])
        /\ ~is_some(AppliedConfig.enabled) =>
              \A e \in BOOLEAN :
                  ~SameConfigureCall([AppliedConfig EXCEPT !.enabled = Some(e)])

(***************************************************************************)
(* C12.  parse_config and the identifier.  As claimed: a string of         *)
(* recognized key:value tokens with an `id:` token never fails with        *)
(* MissingIdentifier; a string without an `id` token (and without an       *)
(* unrecognized key) fails with MissingIdentifier; an unrecognized key     *)
(* makes the parse fail with InvalidConfig naming that key.                *)
(***************************************************************************)
\* The state right after the parse loop has handled a string.
ParsedHere == last # <<>> /\ last.action = "parse"

PartsHere == split_whitespace(cli_configs[last.rec])

KeyedParts == {i \in 1..Len(PartsHere) : \E j \in 1..Len(PartsHere[i]) : PartsHere[i][j] = ":"}

KeyOf(i) == split_once(PartsHere[i], ":")[1][1]

ValueOf(i) == split_once(PartsHere[i], ":")[1][2]

RecognizedKeys ==
    {key_id, key_mode, key_res, key_hz, key_color_depth, key_scaling,
     key_origin, key_degree, key_mirror, key_enabled}

IdParts == {i \in KeyedParts : KeyOf(i) = key_id}

UnknownParts == {i \in KeyedParts : KeyOf(i) \notin RecognizedKeys}

UnknownKeyNamed ==
    UnknownParts # {} =>
        /\ last.parsed.err = "InvalidConfig"
        /\ last.parsed.key = KeyOf(MinOf(UnknownParts))
        /\ result = [kind |-> "InvalidConfig", at |-> last.rec]

C12_ParseIdentifier ==
    ParsedHere =>
        /\ (KeyedParts = 1..Len(PartsHere) /\ UnknownParts = {} /\ IdParts # {})
              => last.parsed.err # "MissingIdentifier"
        /\ (UnknownParts = {} /\ IdParts = {})
              => last.parsed.err = "MissingIdentifier"
        /\ UnknownKeyNamed

\* C12, amended.  With no unrecognized key, the parse succeeds exactly when
\* the last `id:` token of the string has a non-empty value, which becomes
\* the identifier; without an `id:` token, or with an empty value in the last
\* one, it fails with MissingIdentifier.  An unrecognized key makes the parse
\* fail with InvalidConfig naming the first such key.
C12_ParseIdentifierValue ==
    ParsedHere =>
        /\ (UnknownParts = {} /\ IdParts # {} /\ ValueOf(MaxOf(IdParts)) # <<>>)
              => /\ last.parsed.err = "Ok"
                 /\ last.parsed.config.id = ValueOf(MaxOf(IdParts))
        /\ (UnknownParts = {} /\ (IdParts = {} \/ ValueOf(MaxOf(IdParts)) = <<>>))
              => /\ last.parsed.err = "MissingIdentifier"
                 /\ result = [kind |-> "MissingIdentifier", at |-> last.rec]
        /\ UnknownKeyNamed

C12_Witness ==
    /\ ParsedHere
    /\ UnknownParts = {}
    /\ Cardinality(IdParts) = 2
    /\ ValueOf(MinOf(IdParts)) # <<>>
    /\ ValueOf(MaxOf(IdParts)) = <<>>
    /\ last.parsed.err = "MissingIdentifier"

(***************************************************************************)
(* C13.  Every DisplayInfo that get_display_info returns has mirror_of set *)
(* if and only if is_mirror is true, whatever the platform answers to the  *)
(* is-in-mirror-set and the mirrors-display queries.                       *)
(***************************************************************************)
ListedHere == last # <<>> /\ last.action = "list"

C13_MirrorOfIffIsMirror ==
    ListedHere =>
        \A d \in active :
            is_some(last.infos[d]) =>
                (is_some(last.infos[d][1].mirror_of) <=> last.infos[d][1].is_mirror)

\* The part of C13 that the code keeps: mirror_of is set only on a mirror,
\* and names the display the platform reports.
C13_MirrorOfOnlyOnMirror ==
    ListedHere =>
        \A d \in active :
            (is_some(last.infos[d]) /\ is_some(last.infos[d][1].mirror_of)) =>
                /\ last.infos[d][1].is_mirror
                /\ last.infos[d][1].mirror_of = Some(screen[d].mirrors_display)

(***************************************************************************)
(* C14.  The command that list_displays prints for a display, parsed and   *)
(* applied while the displays are unchanged, does not fail with            *)
(* DisplayNotFound or NoMatchingMode, resolves to that display, selects    *)
(* the display's current mode number, and so changes no display's mode.    *)
(***************************************************************************)
\* The display whose description gave the string of record k.
PrintedFor(k) ==
    CHOOSE d \in active :
        /\ is_some(get_display_info(last.before, d))
        /\ format_display_command(get_display_info(last.before, d)[1]) = cli_configs[k]

PrintedApplied == Applied /\ cli_configs # <<>>

C14_RoundTrip ==
    PrintedApplied =>
        /\ ~(FailedHere /\ result.kind \in {"DisplayNotFound", "NoMatchingMode"})
        /\ last.display_id = Some(PrintedFor(last.rec))
        /\ is_some(last.target)
        /\ last.target[1].mode_number = last.before[PrintedFor(last.rec)][1].mode_number
        /\ SetModeCalls(last.rec) = {}
        /\ current = last.before

\* What the code keeps of C14: the printed identifier resolves to the
\* display, and the round trip holds when the current mode is the first of
\* the catalog that agrees with it in resolution, depth and scaling and whose
\* rate is within the tolerance of the printed whole number.
RateOfPrinted(mode) == 100 * DecimalValue(format_hz(mode.refresh_rate))

AgreesWithPrinted(mode, cur_mode) ==
    /\ mode.width = cur_mode.width
    /\ mode.height = cur_mode.height
    /\ mode.depth = cur_mode.depth
    /\ mode.is_scaled = cur_mode.is_scaled
    /\ Abs(mode.refresh_rate - RateOfPrinted(cur_mode)) < HzTolerance

C14_RoundTripFirstMatch ==
    PrintedApplied =>
        LET d == PrintedFor(last.rec)
            cur_mode == last.before[d][1]
            modes == catalog[d]
            first == {i \in 1..Len(modes) :
                         /\ AgreesWithPrinted(modes[i], cur_mode)
                         /\ \A j \in 1..(i - 1) : ~AgreesWithPrinted(modes[j], cur_mode)}
        IN /\ last.display_id = Some(d)
           /\ (\E i \in first : modes[i].mode_number = cur_mode.mode_number)
                 => /\ SetModeCalls(last.rec) = {}
                    /\ current = last.before
                    /\ ~(FailedHere /\ result.kind \in {"DisplayNotFound", "NoMatchingMode"})
           /\ first = {} => (FailedHere /\ result.kind = "NoMatchingMode")

(***************************************************************************)
(* C15.  All configuration strings of an invocation are parsed before any  *)
(* is applied: when a string of the batch does not parse, the run ends     *)
(* with the parse error and makes no set_mode or configure call, not even  *)
(* for the valid strings before the failing one; facade calls are made     *)
(* only once every string has parsed.                                      *)
(***************************************************************************)
ParseErrors == {"InvalidConfig", "MissingIdentifier"}

Unparsable == {k \in 1..Len(cli_configs) : parse_config(cli_configs[k]).err # "Ok"}

C15_ParseBeforeApply ==
    /\ pc = "parse" => calls = <<>>
    /\ Unparsable # {} =>
          /\ calls = <<>>
          /\ pc \in {"parse", "exit"}
          /\ pc = "exit" => result = [kind |-> parse_config(cli_configs[MinOf(Unparsable)]).err,
                                      at |-> MinOf(Unparsable)]
    /\ calls # <<>> =>
          /\ Unparsable = {}
          /\ configs = [k \in 1..Len(cli_configs) |-> parse_config(cli_configs[k]).config]

C15_Witness ==
    /\ pc = "exit"
    /\ result.kind \in ParseErrors
    /\ result.at > 1
    /\ configs # <<>>
    /\ wants_mode_search(configs[1]) \/ wants_configure(configs[1])
    /\ calls = <<>>

(***************************************************************************)
(* C16.  Toggle is an involution on the current mode: on a notch-capable   *)
(* display whose current mode is in its catalog, with set_mode succeeding, *)
(* two consecutive Toggles each change the mode and leave the display in   *)
(* the mode number it started in.                                          *)
(***************************************************************************)
\* The state right after a Toggle that met the conditions of the claim.
ToggledHere ==
    /\ NotchRan
    /\ last.action = "Toggle"
    /\ NotchCapable
    /\ \E i \in Family : catalog[NotchDisplay][i] = ModeBefore
    /\ \A i \in 1..Len(calls) : calls[i].ev.status = 0

\* The next Toggle on the same display, with set_mode succeeding.
SecondToggle == handle_notch_command(current, "Toggle", Some(NotchDisplay), 0)

BackWhereItStarted ==
    /\ Len(calls) = 1
    /\ current[NotchDisplay][1].mode_number # ModeBefore.mode_number
    /\ SecondToggle.err = "Ok"
    /\ Len(SecondToggle.calls) = 1
    /\ SecondToggle.current[NotchDisplay][1].mode_number = ModeBefore.mode_number

C16_ToggleInvolution == ToggledHere => BackWhereItStarted

\* The catalog entries similar to `mode`, as positions.
FamilyOf(mode) ==
    {i \in 1..Len(catalog[NotchDisplay]) :
        LET m == catalog[NotchDisplay][i]
        IN /\ m.width = mode.width
           /\ m.refresh_rate - mode.refresh_rate < 10
           /\ mode.refresh_rate - m.refresh_rate < 10
           /\ m.depth = mode.depth
           /\ m.is_scaled = mode.is_scaled}

\* The family is two modes, of different heights, and is the family of
\* either of them.
TwoModeFamily ==
    /\ Cardinality(Family) = 2
    /\ FamilyOf(current[NotchDisplay][1]) = Family

\* C16, amended.  When the family of the current mode consists of exactly
\* two modes, of different heights, each the other's family, two consecutive
\* Toggles each change the mode and leave the display in the mode number it
\* started in.
C16_ToggleTwoModes == (ToggledHere /\ TwoModeFamily) => BackWhereItStarted

C16_Witness ==
    /\ ToggledHere
    /\ TwoModeFamily
    /\ Len(catalog[NotchDisplay]) > 2
    /\ BackWhereItStarted

====
